---------------------------- MODULE Spec2Model ----------------------------
(***************************************************************************)
(* Tool registry and request adapter of the Websets tools of the Exa MCP  *)
(* server.  One invocation = argument validation against the declared     *)
(* shape, one HTTP request built by the handler, the remote outcome and   *)
(* the envelope the handler returns for it.                               *)
(*                                                                         *)
(* The three groups of handlers are written in three different styles:     *)
(*   "operation" : import / monitor / webhook / event tools                *)
(*                 (registerWebsetOperationTools), text content + isError, *)
(*                 catch reports error.message only;                       *)
(*   "item"      : list / get / delete / search item tools                 *)
(*                 (registerWebsetItemTools), text content + isError,      *)
(*                 catch distinguishes axios errors;                       *)
(*   "envelope"  : batch and export tools (registerWebsetBatchTools,       *)
(*                 registerWebsetExportTools), {success, data | error}.    *)
(***************************************************************************)
EXTENDS Integers, FiniteSets, Sequences, TLC

\* Number of invocation slots the host may have in flight at once.
MaxInv == 1

Slots == 1..MaxInv

\* Marker of a field that is undefined / not present in a JS object.
Absent == "<absent>"

\* API_CONFIG.REQUEST_TIMEOUT as passed to axios.create; NoTimeout is the
\* axios default (timeout 0: the request has no deadline).
REQUEST_TIMEOUT == "API_CONFIG.REQUEST_TIMEOUT"

NoTimeout == "none"

(***************************************************************************)
(* The operation catalog.                                                  *)
(***************************************************************************)
OperationTools ==
  { "create_import_exa", "get_import_exa", "list_imports_exa",
    "update_import_exa", "delete_import_exa",
    "create_webset_monitor_exa", "update_webset_monitor_exa",
    "get_webset_monitor_exa", "list_webset_monitors_exa",
    "delete_webset_monitor_exa", "list_monitor_runs_exa",
    "get_monitor_run_exa",
    "create_webhook_exa", "get_webhook_exa", "list_webhooks_exa",
    "update_webhook_exa", "delete_webhook_exa",
    "list_webhook_attempts_exa",
    "list_events_exa", "get_event_exa" }

ItemTools ==
  { "list_webset_items_exa", "get_webset_item_exa",
    "delete_webset_item_exa", "search_webset_items_exa" }

BatchTools ==
  { "update_webset_item_exa", "batch_update_items_exa",
    "batch_delete_items_exa", "batch_verify_items_exa" }

ExportTools ==
  { "create_export_exa", "get_export_exa", "list_exports_exa",
    "delete_export_exa" }

Operations == OperationTools \cup ItemTools \cup BatchTools \cup ExportTools

Family(op) ==
  IF op \in OperationTools THEN "operation"
  ELSE IF op \in ItemTools THEN "item"
  ELSE "envelope"

DeleteTools ==
  { "delete_import_exa", "delete_webset_monitor_exa", "delete_webhook_exa",
    "delete_webset_item_exa", "delete_export_exa" }

(***************************************************************************)
(* Declared argument shapes: the required and the optional fields of each  *)
(* operation's zod shape.                                                  *)
(***************************************************************************)
Required(op) ==
  CASE op = "create_import_exa"         -> {"sourceUrl"}
    [] op = "get_import_exa"            -> {"importId"}
    [] op = "list_imports_exa"          -> {}
    [] op = "update_import_exa"         -> {"importId", "status"}
    [] op = "delete_import_exa"         -> {"importId"}
    [] op = "create_webset_monitor_exa" -> {"websetId", "cadence"}
    [] op = "update_webset_monitor_exa" -> {"websetId", "monitorId"}
    [] op = "get_webset_monitor_exa"    -> {"websetId", "monitorId"}
    [] op = "list_webset_monitors_exa"  -> {"websetId"}
    [] op = "delete_webset_monitor_exa" -> {"websetId", "monitorId"}
    [] op = "list_monitor_runs_exa"     -> {"websetId", "monitorId"}
    [] op = "get_monitor_run_exa"       -> {"websetId", "monitorId", "runId"}
    [] op = "create_webhook_exa"        -> {"url", "events"}
    [] op = "get_webhook_exa"           -> {"webhookId"}
    [] op = "list_webhooks_exa"         -> {}
    [] op = "update_webhook_exa"        -> {"webhookId"}
    [] op = "delete_webhook_exa"        -> {"webhookId"}
    [] op = "list_webhook_attempts_exa" -> {"webhookId"}
    [] op = "list_events_exa"           -> {}
    [] op = "get_event_exa"             -> {"eventId"}
    [] op = "list_webset_items_exa"     -> {"websetId"}
    [] op = "get_webset_item_exa"       -> {"websetId", "itemId"}
    [] op = "delete_webset_item_exa"    -> {"websetId", "itemId"}
    [] op = "search_webset_items_exa"   -> {"websetId"}
    [] op = "update_webset_item_exa"    -> {"websetId", "itemId"}
    [] op = "batch_update_items_exa"    -> {"websetId", "itemIds", "updates"}
    [] op = "batch_delete_items_exa"    -> {"websetId", "itemIds"}
    [] op = "batch_verify_items_exa"    -> {"websetId", "itemIds", "status"}
    [] op = "create_export_exa"         -> {"websetId", "format"}
    [] op = "get_export_exa"            -> {"websetId", "exportId"}
    [] op = "list_exports_exa"          -> {"websetId"}
    [] op = "delete_export_exa"         -> {"websetId", "exportId"}

Optional(op) ==
  CASE op = "create_import_exa"         -> {"fileType", "websetId", "metadata"}
    [] op = "list_imports_exa"          -> {"status", "websetId", "cursor", "limit"}
    [] op = "create_webset_monitor_exa" -> {"query", "searchBehavior", "metadata"}
    [] op = "update_webset_monitor_exa" ->
         {"cadence", "query", "status", "searchBehavior", "metadata"}
    [] op = "list_webset_monitors_exa"  -> {"status", "cursor", "limit"}
    [] op = "list_monitor_runs_exa"     -> {"status", "cursor", "limit"}
    [] op = "create_webhook_exa"        -> {"description", "secret"}
    [] op = "list_webhooks_exa"         -> {"status", "cursor", "limit"}
    [] op = "update_webhook_exa"        -> {"url", "events", "description", "status"}
    [] op = "list_webhook_attempts_exa" -> {"eventType", "cursor", "limit"}
    [] op = "list_events_exa"           -> {"eventType", "websetId", "cursor", "limit"}
    [] op = "list_webset_items_exa"     ->
         {"cursor", "limit", "type", "verificationStatus", "hasEnrichedData",
          "createdAfter", "createdBefore", "updatedAfter", "updatedBefore"}
    [] op = "search_webset_items_exa"   -> {"filters", "cursor", "limit"}
    [] op = "update_webset_item_exa"    -> {"metadata", "verification", "customFields"}
    [] op = "batch_verify_items_exa"    -> {"reasoning"}
    [] op = "create_export_exa"         -> {"filters", "fields"}
    [] op = "list_exports_exa"          -> {"limit", "cursor"}
    [] OTHER                            -> {}

Fields(op) == Required(op) \cup Optional(op)

(***************************************************************************)
(* Caller-supplied arguments: the fields present, and those of them whose  *)
(* value does not have the declared type (wrong primitive type, value      *)
(* outside a closed enumeration).                                          *)
(***************************************************************************)
NoArgs == [present |-> {}, bad |-> {}]

ArgChoices(op) ==
  { [present |-> Fields(op), bad |-> {}],
    [present |-> Required(op), bad |-> {}] }
  \cup { [present |-> Fields(op) \ {f}, bad |-> {}] : f \in Required(op) }
  \cup { [present |-> Fields(op), bad |-> {f}] : f \in Fields(op) }

\* The arguments satisfy the declared shape.
Conforms(op, args) ==
  /\ Required(op) \subseteq args.present
  /\ args.bad = {}

(***************************************************************************)
(* Registration hands the shape to the server, which parses the arguments  *)
(* with it before the handler is called.                                   *)
(***************************************************************************)
SchemaParse_RequiredNotChecked(op, args) == args.bad = {}

SchemaParse(op, args) == Conforms(op, args)

(***************************************************************************)
(* The HTTP request a handler builds.                                      *)
(***************************************************************************)
Method(op) ==
  CASE op \in { "create_import_exa", "create_webset_monitor_exa",
                "create_webhook_exa", "create_export_exa",
                "batch_update_items_exa", "batch_delete_items_exa",
                "batch_verify_items_exa" }                -> "POST"
    [] op \in { "update_import_exa", "update_webset_monitor_exa",
                "update_webhook_exa", "update_webset_item_exa" } -> "PATCH"
    [] op \in DeleteTools                                  -> "DELETE"
    [] OTHER                                               -> "GET"

\* The API_CONFIG.ENDPOINTS template the handler starts from, with the
\* suffix the handler appends to it.
Endpoint(op) ==
  CASE op \in { "create_import_exa", "list_imports_exa" } -> "IMPORTS"
    [] op \in { "get_import_exa", "update_import_exa", "delete_import_exa" }
                                                          -> "IMPORT_BY_ID"
    [] op \in { "create_webset_monitor_exa", "list_webset_monitors_exa" }
                                                          -> "WEBSET_MONITORS"
    [] op \in { "update_webset_monitor_exa", "get_webset_monitor_exa",
                "delete_webset_monitor_exa" }             -> "WEBSET_MONITOR_BY_ID"
    [] op = "list_monitor_runs_exa"                       -> "WEBSET_MONITOR_RUNS"
    [] op = "get_monitor_run_exa"                         -> "WEBSET_MONITOR_RUNS/${runId}"
    [] op \in { "create_webhook_exa", "list_webhooks_exa" } -> "WEBHOOKS"
    [] op \in { "get_webhook_exa", "update_webhook_exa", "delete_webhook_exa" }
                                                          -> "WEBHOOK_BY_ID"
    [] op = "list_webhook_attempts_exa"                   -> "WEBHOOK_ATTEMPTS"
    [] op = "list_events_exa"                             -> "EVENTS"
    [] op = "get_event_exa"                               -> "EVENT_BY_ID"
    [] op \in { "list_webset_items_exa", "search_webset_items_exa" }
                                                          -> "WEBSET_ITEMS"
    [] op \in { "get_webset_item_exa", "delete_webset_item_exa",
                "update_webset_item_exa" }                -> "WEBSET_ITEM_BY_ID"
    [] op = "batch_update_items_exa"                      -> "WEBSET_ITEMS/batch-update"
    [] op = "batch_delete_items_exa"                      -> "WEBSET_ITEMS/batch-delete"
    [] op = "batch_verify_items_exa"                      -> "WEBSET_ITEMS/batch-verify"
    [] op \in { "create_export_exa", "list_exports_exa" } -> "WEBSET_EXPORTS"
    [] op \in { "get_export_exa", "delete_export_exa" }   -> "WEBSET_EXPORT_BY_ID"

\* The timeout of the request configuration: the operation and item tools
\* build an axios instance with timeout: API_CONFIG.REQUEST_TIMEOUT; the
\* batch and export tools call axios.post / get / patch / delete with a
\* configuration that holds headers (and params) only.
TimeoutOf(op) ==
  IF Family(op) \in {"operation", "item"} THEN REQUEST_TIMEOUT ELSE NoTimeout

NoRequest == [method |-> Absent, endpoint |-> Absent, timeout |-> Absent]

BuildRequest(op) ==
  [method |-> Method(op), endpoint |-> Endpoint(op), timeout |-> TimeoutOf(op)]

(***************************************************************************)
(* What the awaited axios call can produce: a 2xx response, or a thrown    *)
(* value.  Bodies are kept by their shape:                                 *)
(*   "object"    a well-formed body of the expected type,                  *)
(*   "noData"    a JSON object without the expected fields,                *)
(*   "null"      a JSON null body,                                         *)
(*   "errorBody" an error body with an error field,                        *)
(*   "plainBody" an error body without an error field.                     *)
(***************************************************************************)
BodyError == "body.error"

Response(body) ==
  [kind |-> "response", status |-> "200", statusText |-> "OK", body |-> body,
   code |-> Absent, message |-> Absent]

StatusError(status, statusText, body) ==
  [kind |-> "axiosError", status |-> status, statusText |-> statusText,
   body |-> body, code |-> "ERR_BAD_RESPONSE",
   message |-> "Request failed with status code " \o status]

NetworkError ==
  [kind |-> "axiosError", status |-> Absent, statusText |-> Absent,
   body |-> Absent, code |-> "ERR_NETWORK", message |-> "Network Error"]

TimeoutError ==
  [kind |-> "axiosError", status |-> Absent, statusText |-> Absent,
   body |-> Absent, code |-> "ECONNABORTED", message |-> "timeout exceeded"]

\* A thrown Error that is no axios error, and a thrown value that is no Error.
ThrownError ==
  [kind |-> "error", status |-> Absent, statusText |-> Absent,
   body |-> Absent, code |-> Absent, message |-> "Error.message"]

ThrownValue ==
  [kind |-> "value", status |-> Absent, statusText |-> Absent,
   body |-> Absent, code |-> Absent, message |-> "String(error)"]

\* The TypeError of a property access on undefined / null.
TypeErrorThrown ==
  [kind |-> "error", status |-> Absent, statusText |-> Absent,
   body |-> Absent, code |-> Absent,
   message |-> "Cannot read properties of undefined"]

NoOutcome ==
  [kind |-> Absent, status |-> Absent, statusText |-> Absent,
   body |-> Absent, code |-> Absent, message |-> Absent]

\* Outcomes other than the expiry of the request's own deadline.
RemoteOutcomes ==
  { Response("object"), Response("noData"), Response("null"),
    StatusError("404", "Not Found", "errorBody"),
    StatusError("500", "Internal Server Error", "plainBody"),
    NetworkError, ThrownError, ThrownValue }

(***************************************************************************)
(* Envelopes.  flagStyle tells which explicit flag the envelope uses:      *)
(* "isError" (text content tools; the flag is present only when set) or    *)
(* "success" (batch and export tools).  For a text content tool the text   *)
(* is kept in data when the result is a success and in error when it is a  *)
(* failure; statusCode is the "(<status>)" part of an item tool's text.    *)
(* Values of data:                                                         *)
(*   "response.data"       the response body as received,                  *)
(*   "response.data.data"  the data array of a paginated body,             *)
(*   "formattedResult"     a summary computed from the body's data array,  *)
(*   "confirmation"        a fixed confirmation text.                      *)
(***************************************************************************)
NoEnvelope ==
  [flagStyle |-> Absent, failed |-> FALSE, data |-> Absent, error |-> Absent,
   details |-> Absent, statusCode |-> Absent, message |-> Absent]

\* a || b on values that are undefined or non-empty strings
OrElse(a, b) == IF a # Absent THEN a ELSE b

\* error.response?.data?.error
BodyErrorField(err) == IF err.body = "errorBody" THEN BodyError ELSE Absent

\* error instanceof Error (an AxiosError is an Error)
IsError(err) == err.kind \in {"axiosError", "error"}

\* axios.isAxiosError(error)
IsAxiosError(err) == err.kind = "axiosError"

\* The body property the success path of the handler dereferences:
\* response.data.data.length (paginated item / export lists),
\* response.data.status (export), response.data.id (create import).
SuccessPathThrows(op, body) ==
  CASE op \in { "list_webset_items_exa", "search_webset_items_exa",
                "list_exports_exa" }        -> body \in {"noData", "null"}
    [] op \in { "create_export_exa", "get_export_exa", "create_import_exa" }
                                            -> body = "null"
    [] OTHER                                -> FALSE

SuccessData(op) ==
  CASE op = "delete_export_exa"             -> Absent
    [] op \in DeleteTools \ {"delete_export_exa"} -> "confirmation"
    [] op \in { "list_webset_items_exa", "search_webset_items_exa" }
                                            -> "formattedResult"
    [] op = "list_exports_exa"              -> "response.data.data"
    [] OTHER                                -> "response.data"

\* message / auxiliary field of a success envelope of the batch and export
\* tools (list_exports_exa has summary, get_export_exa downloadReady).
SuccessMessage(op) ==
  CASE op \in BatchTools \cup {"create_export_exa", "delete_export_exa"}
                                            -> "message"
    [] op = "get_export_exa"                -> "downloadReady"
    [] op = "list_exports_exa"              -> "summary"
    [] OTHER                                -> Absent

SuccessEnvelope(op) ==
  [flagStyle  |-> IF Family(op) = "envelope" THEN "success" ELSE "isError",
   failed     |-> FALSE,
   data       |-> SuccessData(op),
   error      |-> Absent,
   details    |-> Absent,
   statusCode |-> Absent,
   message    |-> SuccessMessage(op)]

(***************************************************************************)
(* The catch blocks, one per handler style.                                *)
(***************************************************************************)
CatchOperationTool_NoFlag(err) ==
  [flagStyle |-> "isError", failed |-> FALSE, data |-> Absent,
   error |-> err.message,
   details |-> Absent, statusCode |-> Absent, message |-> Absent]

\* `<Label> error: ${error instanceof Error ? error.message : String(error)}`
CatchOperationTool(err) ==
  [flagStyle |-> "isError", failed |-> TRUE, data |-> Absent,
   error |-> err.message,
   details |-> Absent, statusCode |-> Absent, message |-> Absent]

CatchItemTool_NetworkDetails(err) ==
  [flagStyle |-> "isError", failed |-> TRUE, data |-> Absent,
   error |-> IF IsAxiosError(err) THEN OrElse(BodyErrorField(err), err.message)
             ELSE err.message,
   details |-> IF IsAxiosError(err) THEN err.code ELSE Absent,
   statusCode |-> IF IsAxiosError(err) THEN OrElse(err.status, "unknown")
                  ELSE Absent,
   message |-> Absent]

\* axios error: `<Label> error (${statusCode}): ${errorMessage}`,
\* otherwise as the operation tools
CatchItemTool(err) ==
  [flagStyle |-> "isError", failed |-> TRUE, data |-> Absent,
   error |-> IF IsAxiosError(err) THEN OrElse(BodyErrorField(err), err.message)
             ELSE err.message,
   details |-> Absent,
   statusCode |-> IF IsAxiosError(err) THEN OrElse(err.status, "unknown")
                  ELSE Absent,
   message |-> Absent]

\* axios error: {success: false, error: body.error || message, details: body},
\* otherwise {success: false, error: message | 'Unknown error occurred'}
CatchEnvelopeTool(err) ==
  [flagStyle |-> "success", failed |-> TRUE, data |-> Absent,
   error |-> IF IsAxiosError(err) THEN OrElse(BodyErrorField(err), err.message)
             ELSE IF IsError(err) THEN err.message
             ELSE "Unknown error occurred",
   details |-> IF IsAxiosError(err) THEN err.body ELSE Absent,
   statusCode |-> Absent, message |-> Absent]

CatchBlock(op, err) ==
  CASE Family(op) = "operation" -> CatchOperationTool(err)
    [] Family(op) = "item"      -> CatchItemTool(err)
    [] OTHER                    -> CatchEnvelopeTool(err)

(***************************************************************************)
(* The handler from the point where the awaited call settles: the rest of *)
(* the try block, or the catch block.  escaped tells that an exception     *)
(* left the handler instead of an envelope.                                *)
(***************************************************************************)
HandlerResult_UncaughtAfterAwait(op, outcome) ==
  IF outcome.kind = "response"
  THEN IF SuccessPathThrows(op, outcome.body)
       THEN [escaped |-> TRUE, env |-> NoEnvelope]
       ELSE [escaped |-> FALSE, env |-> SuccessEnvelope(op)]
  ELSE [escaped |-> FALSE, env |-> CatchBlock(op, outcome)]

HandlerResult(op, outcome) ==
  IF outcome.kind = "response"
  THEN IF SuccessPathThrows(op, outcome.body)
       THEN [escaped |-> FALSE, env |-> CatchBlock(op, TypeErrorThrown)]
       ELSE [escaped |-> FALSE, env |-> SuccessEnvelope(op)]
  ELSE [escaped |-> FALSE, env |-> CatchBlock(op, outcome)]

\* The result of an invocation whose arguments fail the declared shape: the
\* handler is not called.
ValidationEnvelope ==
  [flagStyle |-> "isError", failed |-> TRUE, data |-> Absent,
   error |-> "ValidationError",
   details |-> Absent, statusCode |-> Absent, message |-> Absent]

\* Where the handler goes once the awaited call has settled: both the try
\* block and the catch block return.
Continuation_RetryOnFailure(outcome) ==
  IF outcome.kind = "response" THEN "done" ELSE "handler"

Continuation(outcome) == "done"

(***************************************************************************)
(* State: the invocations in flight.  pc is the position of an invocation: *)
(*   "idle"     no invocation in the slot,                                 *)
(*   "handler"  arguments parsed, handler running up to its axios call,    *)
(*   "waiting"  suspended at the awaited axios call,                       *)
(*   "done"     the invocation has produced its result.                    *)
(* sent counts the HTTP requests the invocation has issued, returned the   *)
(* envelopes it has returned.                                              *)
(*                                                                         *)
(* call is one handler call followed at the level of its values (the       *)
(* arguments, the query, body and path of the request, the page the remote *)
(* returns, the fields of the result); the specifications further down     *)
(* that follow a call leave inv alone, and this one leaves call alone.     *)
(***************************************************************************)
VARIABLES inv, call

vars == <<inv, call>>

NoCall == [stage |-> "none"]

IdleInvocation ==
  [pc |-> "idle", op |-> Absent, args |-> NoArgs, sent |-> 0,
   req |-> NoRequest, outcome |-> NoOutcome, returned |-> 0,
   escaped |-> FALSE, env |-> NoEnvelope]

NoInvocations == [i \in Slots |-> IdleInvocation]

Init ==
  /\ inv = NoInvocations
  /\ call = NoCall

\* tools/call: the server parses the arguments with the registered shape and
\* calls the handler only with parsed arguments.
Invoke(i, op, args) ==
  /\ inv[i].pc = "idle"
  /\ inv' = [inv EXCEPT ![i] =
       IF SchemaParse(op, args)
       THEN [IdleInvocation EXCEPT !.pc = "handler", !.op = op, !.args = args]
       ELSE [IdleInvocation EXCEPT !.pc = "done", !.op = op, !.args = args,
                                   !.returned = 1, !.env = ValidationEnvelope]]
  /\ UNCHANGED call

\* The handler builds its request and suspends at the awaited axios call.
SendRequest(i) ==
  /\ inv[i].pc = "handler"
  /\ inv' = [inv EXCEPT ![i].pc = "waiting",
                        ![i].req = BuildRequest(inv[i].op),
                        ![i].sent = @ + 1]
  /\ UNCHANGED call

\* The continuation of the handler with the settled axios call.
Resume(i, outcome) ==
  LET r == HandlerResult(inv[i].op, outcome) IN
  IF Continuation(outcome) = "done"
  THEN inv' = [inv EXCEPT ![i].pc = "done",
                          ![i].outcome = outcome,
                          ![i].escaped = r.escaped,
                          ![i].env = r.env,
                          ![i].returned = IF r.escaped THEN @ ELSE @ + 1]
  ELSE inv' = [inv EXCEPT ![i].pc = Continuation(outcome),
                          ![i].outcome = outcome]

\* The remote answers, the transport fails, or the call throws.
Settle(i, outcome) ==
  /\ inv[i].pc = "waiting"
  /\ Resume(i, outcome)
  /\ UNCHANGED call

\* The deadline of the request expires: only a request that has one.
TimeoutFires(i) ==
  /\ inv[i].pc = "waiting"
  /\ inv[i].req.timeout # NoTimeout
  /\ Resume(i, TimeoutError)
  /\ UNCHANGED call

\* The caller takes the result; the slot is free for the next invocation.
Return(i) ==
  /\ inv[i].pc = "done"
  /\ inv' = [inv EXCEPT ![i] = IdleInvocation]
  /\ UNCHANGED call

Next ==
  \E i \in Slots :
    \/ \E op \in Operations : \E args \in ArgChoices(op) : Invoke(i, op, args)
    \/ SendRequest(i)
    \/ \E outcome \in RemoteOutcomes : Settle(i, outcome)
    \/ TimeoutFires(i)
    \/ Return(i)

Spec == Init /\ [][Next]_vars

\* The handler runs on when it can, and a configured deadline does expire;
\* the remote service is under no obligation to answer.
FairSpec ==
  /\ Spec
  /\ \A i \in Slots : WF_vars(SendRequest(i)) /\ WF_vars(TimeoutFires(i))

TypeOK ==
  \A i \in Slots :
    /\ inv[i].pc \in {"idle", "handler", "waiting", "done"}
    /\ inv[i].op \in Operations \cup {Absent}
    /\ inv[i].sent \in Nat
    /\ inv[i].returned \in Nat

(***************************************************************************)
(* Properties.                                                             *)
(***************************************************************************)
Settled(i) == inv[i].pc = "done" /\ inv[i].sent > 0

\* The fields of an envelope that hold a value, the flag aside.
Populated(env) ==
  { f \in {"data", "error", "details", "message"} : env[f] # Absent }

\* C1: whatever the awaited HTTP call produces (a response, well-formed or
\* not, an axios error with or without a response, any other thrown value),
\* the invocation ends with exactly one envelope and no exception leaves the
\* handler; before it ends it has returned nothing.
C1_OneEnvelopeNoException ==
  \A i \in Slots :
    /\ ~inv[i].escaped
    /\ inv[i].pc = "done" => inv[i].returned = 1 /\ inv[i].env # NoEnvelope
    /\ inv[i].pc # "done" => inv[i].returned = 0

\* C1 witness: list_exports_exa got a 2xx body without data array and
\* returned one failure envelope.
C1_Witness ==
  \E i \in Slots :
    /\ inv[i].pc = "done"
    /\ inv[i].op = "list_exports_exa"
    /\ inv[i].outcome = Response("noData")
    /\ inv[i].returned = 1
    /\ inv[i].env.failed
    /\ ~inv[i].escaped

\* C2: an invocation whose arguments omit a required field, or hold a value
\* the declared shape rejects, ends with a failure envelope and has issued
\* no HTTP request.
C2_InvalidArgsNoRequest ==
  \A i \in Slots :
    (inv[i].pc # "idle" /\ ~Conforms(inv[i].op, inv[i].args)) =>
      /\ inv[i].pc = "done"
      /\ inv[i].env.failed
      /\ inv[i].sent = 0
      /\ inv[i].req = NoRequest

\* C2 witness: batch_delete_items_exa called without itemIds was rejected.
C2_Witness ==
  \E i \in Slots :
    /\ inv[i].pc = "done"
    /\ inv[i].op = "batch_delete_items_exa"
    /\ "itemIds" \notin inv[i].args.present
    /\ inv[i].env.failed
    /\ inv[i].sent = 0

\* C3: an invocation that passed validation issues exactly one HTTP request:
\* none before the handler reaches its axios call, one from then on, and no
\* second one after the first has failed.
C3_ExactlyOneRequest ==
  \A i \in Slots :
    /\ inv[i].sent <= 1
    /\ inv[i].pc = "handler" => inv[i].sent = 0
    /\ inv[i].pc = "waiting" => inv[i].sent = 1
    /\ (inv[i].pc = "done" /\ Conforms(inv[i].op, inv[i].args)) =>
         inv[i].sent = 1

\* C3 witness: search_webset_items_exa ended after a 500 with one request.
C3_Witness ==
  \E i \in Slots :
    /\ inv[i].pc = "done"
    /\ inv[i].op = "search_webset_items_exa"
    /\ inv[i].outcome.kind = "axiosError"
    /\ inv[i].outcome.status = "500"
    /\ inv[i].sent = 1

\* C4 (as claimed): after an error status with a response body the envelope's
\* error is the body's error field when the body has one and the HTTP status
\* text otherwise, and details is the response body.
C4_RemoteErrorEnvelope ==
  \A i \in Slots :
    (Settled(i) /\ inv[i].outcome.kind = "axiosError"
                /\ inv[i].outcome.body # Absent) =>
      /\ inv[i].env.error =
           IF inv[i].outcome.body = "errorBody" THEN BodyError
           ELSE inv[i].outcome.statusText
      /\ inv[i].env.details = inv[i].outcome.body

\* C5: when no response was received (network failure or timeout) the
\* envelope is flagged as a failure and holds the error message and nothing
\* else: no data, no details, no status code; a timeout gives the same fields
\* as any other transport failure.
C5_NoResponseEnvelope ==
  \A i \in Slots :
    (Settled(i) /\ inv[i].outcome \in {NetworkError, TimeoutError}) =>
      /\ inv[i].env.failed
      /\ inv[i].env.error = inv[i].outcome.message
      /\ Populated(inv[i].env) = {"error"}
      /\ inv[i].env.statusCode \in {Absent, "unknown"}

\* C5 witness: an invocation ended by the expiry of its deadline.
C5_Witness ==
  \E i \in Slots :
    /\ Settled(i)
    /\ inv[i].outcome = TimeoutError
    /\ inv[i].env.failed
    /\ inv[i].env.error = "timeout exceeded"

\* C6 (as claimed): every envelope has exactly one of data and error: a
\* success envelope data and no error, a failure envelope error and no data.
C6_ExactlyOneOfDataError ==
  \A i \in Slots :
    inv[i].pc = "done" =>
      /\ inv[i].env.failed =>
           inv[i].env.error # Absent /\ inv[i].env.data = Absent
      /\ ~inv[i].env.failed =>
           inv[i].env.data # Absent /\ inv[i].env.error = Absent

\* C7: every envelope carries its flag; the flag is set after a validation
\* failure, an error status, a transport failure or any thrown value, and it
\* is not set after a 2xx response with a well-formed body.
C7_FlagMatchesOutcome ==
  \A i \in Slots :
    inv[i].pc = "done" =>
      /\ inv[i].env.flagStyle \in {"isError", "success"}
      /\ ~Conforms(inv[i].op, inv[i].args) => inv[i].env.failed
      /\ inv[i].outcome.kind \in {"axiosError", "error", "value"} =>
           inv[i].env.failed
      /\ inv[i].outcome = Response("object") => ~inv[i].env.failed

\* C7 witness: create_import_exa flagged a transport failure.
C7_Witness ==
  \E i \in Slots :
    /\ Settled(i)
    /\ inv[i].op = "create_import_exa"
    /\ inv[i].outcome = NetworkError
    /\ inv[i].env.flagStyle = "isError"
    /\ inv[i].env.failed

\* C8 (as claimed): after a 2xx response with a well-formed body the envelope
\* is a success whose data is the response body or its normalization.
C8_SuccessDataIsBody ==
  \A i \in Slots :
    (Settled(i) /\ inv[i].outcome = Response("object")) =>
      /\ ~inv[i].env.failed
      /\ inv[i].env.data \in
           {"response.data", "response.data.data", "formattedResult"}

\* C9 (as claimed): an invocation that has issued its request eventually
\* ends, whether or not the remote service ever answers.
C9_RequestEventuallyEnds ==
  \A i \in Slots : (inv[i].pc = "waiting") ~> (inv[i].pc = "done")

\* C10 (as claimed): every request issued carries the fixed request timeout.
C10_EveryRequestHasTimeout ==
  \A i \in Slots :
    inv[i].sent > 0 => inv[i].req.timeout = REQUEST_TIMEOUT

(***************************************************************************)
(* One page: the list and search handlers on the page the remote returns.  *)
(*                                                                         *)
(* Strings are sequences of characters.  A pattern is the source of a      *)
(* regular expression: given tells whether the caller supplied it,         *)
(* anchored whether it starts with ^, lit is its literal text.  The empty  *)
(* source "" is [given, not anchored, empty lit]; "^" is anchored with an  *)
(* empty lit and matches every string.                                     *)
(***************************************************************************)
\* Longest page the remote returns in the model.
MaxPage == 2

Lower(c) == IF c = "A" THEN "a" ELSE IF c = "B" THEN "b" ELSE c

LowerStr(str) == [k \in 1..Len(str) |-> Lower(str[k])]

IsPrefixAt(p, str, k) ==
  /\ k + Len(p) - 1 <= Len(str)
  /\ \A j \in 1..Len(p) : str[k + j - 1] = p[j]

\* new RegExp(source, 'i').test(str): the flag i ignores case; there is no
\* flag g, so the test keeps no position between calls.
RegExpTest(pat, str) ==
  IF pat.anchored THEN IsPrefixAt(LowerStr(pat.lit), LowerStr(str), 1)
  ELSE \E k \in 1..(Len(str) + 1) :
         IsPrefixAt(LowerStr(pat.lit), LowerStr(str), k)

\* if (filters?.urlPattern): the pattern is supplied and not the empty string
PatternTruthy(pat) == pat.given /\ (pat.anchored \/ pat.lit # <<>>)

TitleTruthy_AbsentOnly(item) == item.hasTitle

\* item.title && ...: the title is present and not the empty string
TitleTruthy(item) == item.hasTitle /\ item.title # <<>>

SearchFilter_TitleFilterOnWholePage(filters, data) ==
  LET UrlTest(item) == RegExpTest(filters.urlPattern, item.url)
      TitleTest(item) ==
        TitleTruthy(item) /\ RegExpTest(filters.titlePattern, item.title)
      afterUrl == IF PatternTruthy(filters.urlPattern)
                  THEN SelectSeq(data, UrlTest) ELSE data
  IN  IF PatternTruthy(filters.titlePattern)
      THEN SelectSeq(data, TitleTest) ELSE afterUrl

SearchFilter_DropsFirstKept(filters, data) ==
  LET UrlTest(item) == RegExpTest(filters.urlPattern, item.url)
      TitleTest(item) ==
        TitleTruthy(item) /\ RegExpTest(filters.titlePattern, item.title)
      afterUrl == IF PatternTruthy(filters.urlPattern)
                  THEN SelectSeq(data, UrlTest) ELSE data
      kept == IF PatternTruthy(filters.titlePattern)
              THEN SelectSeq(afterUrl, TitleTest) ELSE afterUrl
  IN  IF Len(kept) > 1 THEN Tail(kept) ELSE kept

\* the client-side filters of search_webset_items_exa
SearchFilter(filters, data) ==
  LET UrlTest(item) == RegExpTest(filters.urlPattern, item.url)
      TitleTest(item) ==
        TitleTruthy(item) /\ RegExpTest(filters.titlePattern, item.title)
      afterUrl == IF PatternTruthy(filters.urlPattern)
                  THEN SelectSeq(data, UrlTest) ELSE data
  IN  IF PatternTruthy(filters.titlePattern)
      THEN SelectSeq(afterUrl, TitleTest) ELSE afterUrl

SearchFormattedResult_HasMoreOfFiltered(filters, body) ==
  LET filteredItems == SearchFilter(filters, body.data) IN
  [websetId      |-> "websetId",
   matchingItems |-> Len(filteredItems),
   hasMore       |-> body.hasMore /\ Len(filteredItems) = Len(body.data),
   nextCursor    |-> body.nextCursor,
   filters       |-> filters,
   items         |-> filteredItems]

\* formattedResult of search_webset_items_exa; each returned item is the
\* page's item field by field
SearchFormattedResult(filters, body) ==
  LET filteredItems == SearchFilter(filters, body.data) IN
  [websetId      |-> "websetId",
   matchingItems |-> Len(filteredItems),
   hasMore       |-> body.hasMore,
   nextCursor    |-> body.nextCursor,
   filters       |-> filters,
   items         |-> filteredItems]

\* formattedResult of list_webset_items_exa
ListItemsFormattedResult(body) ==
  [websetId   |-> "websetId",
   itemCount  |-> Len(body.data),
   hasMore    |-> body.hasMore,
   nextCursor |-> body.nextCursor,
   items      |-> body.data]

CountStatus(data, status) ==
  LET Has(e) == e.status = status IN Len(SelectSeq(data, Has))

ExportSummary_ProcessingAsPending(data) ==
  [total      |-> Len(data),
   completed  |-> CountStatus(data, "completed"),
   pending    |-> CountStatus(data, "pending"),
   processing |-> CountStatus(data, "pending"),
   failed     |-> CountStatus(data, "failed")]

\* summary of list_exports_exa
ExportSummary(data) ==
  [total      |-> Len(data),
   completed  |-> CountStatus(data, "completed"),
   pending    |-> CountStatus(data, "pending"),
   processing |-> CountStatus(data, "processing"),
   failed     |-> CountStatus(data, "failed")]

\* success result of list_exports_exa
ListExportsResult(body) ==
  [success    |-> TRUE,
   data       |-> body.data,
   hasMore    |-> body.hasMore,
   nextCursor |-> body.nextCursor,
   summary    |-> ExportSummary(body.data)]

\* !!response.data.downloadUrl: present and not the empty string
HasDownloadUrl(export) ==
  export.downloadUrl # Absent /\ export.downloadUrl # ""

DownloadReady_StatusOnly(export) == export.status = "completed"

\* response.data.status === 'completed' && !!response.data.downloadUrl
DownloadReady(export) ==
  export.status = "completed" /\ HasDownloadUrl(export)

\* the success envelope of get_export_exa
GetExportResult(body) ==
  [success |-> TRUE, data |-> body, downloadReady |-> DownloadReady(body)]

(***************************************************************************)
(* The pages and filters of the page specification.                        *)
(***************************************************************************)
SeqsUpTo(S, n) == UNION { [1..k -> S] : k \in 0..n }

PatternNotGiven == [given |-> FALSE, anchored |-> FALSE, lit |-> <<>>]

PatternEmptySource == [given |-> TRUE, anchored |-> FALSE, lit |-> <<>>]

\* not supplied, "", "^a", "a"
UrlPatterns ==
  { PatternNotGiven, PatternEmptySource,
    [given |-> TRUE, anchored |-> TRUE, lit |-> <<"a">>],
    [given |-> TRUE, anchored |-> FALSE, lit |-> <<"a">>] }

\* not supplied, "", "^", "a"
TitlePatterns ==
  { PatternNotGiven, PatternEmptySource,
    [given |-> TRUE, anchored |-> TRUE, lit |-> <<>>],
    [given |-> TRUE, anchored |-> FALSE, lit |-> <<"a">>] }

\* urls "Ab", "ba", "b"; titles: none, "", "a", "B"
PageItems ==
  { [url |-> u, hasTitle |-> t.hasTitle, title |-> t.title] :
      u \in { <<"A", "b">>, <<"b", "a">>, <<"b">> },
      t \in { [hasTitle |-> FALSE, title |-> <<>>],
              [hasTitle |-> TRUE, title |-> <<>>],
              [hasTitle |-> TRUE, title |-> <<"a">>],
              [hasTitle |-> TRUE, title |-> <<"B">>] } }

TitledItem(u) == [url |-> u, hasTitle |-> TRUE, title |-> <<"B">>]

\* A page of five items of which the first and the third have a url that
\* starts with "a" (whatever the case), the pattern being "^a".
ScenarioPage ==
  << TitledItem(<<"A", "b">>), TitledItem(<<"b", "a">>),
     TitledItem(<<"A", "b">>), TitledItem(<<"b">>), TitledItem(<<"b", "a">>) >>

ScenarioFilters ==
  [urlPattern |-> [given |-> TRUE, anchored |-> TRUE, lit |-> <<"a">>],
   titlePattern |-> PatternNotGiven]

NoFilters == [urlPattern |-> PatternNotGiven, titlePattern |-> PatternNotGiven]

ExportStatuses == {"completed", "pending", "processing", "failed", "canceled"}

ScenarioExports ==
  << [status |-> "completed"], [status |-> "pending"], [status |-> "failed"] >>

\* hasMore and nextCursor of a paginated body: a cursor iff there is more
PageTails ==
  { [hasMore |-> FALSE, nextCursor |-> Absent],
    [hasMore |-> TRUE, nextCursor |-> "cursor-2"] }

PaginatedBody(data, tail) ==
  [data |-> data, hasMore |-> tail.hasMore, nextCursor |-> tail.nextCursor]

NoResult == [none |-> TRUE]

PageCall(op, filters, body) ==
  [stage |-> "waiting", op |-> op, filters |-> filters, body |-> body,
   result |-> NoResult]

\* the export a get_export_exa request may be answered with
ExportBodies ==
  [status : ExportStatuses,
   downloadUrl : {Absent, "", "https://exports/e1.csv"}]

PageInit ==
  /\ inv = NoInvocations
  /\ \E tail \in PageTails :
       \/ \E data \in SeqsUpTo(PageItems, MaxPage) \cup {ScenarioPage} :
            \/ \E u \in UrlPatterns, t \in TitlePatterns :
                 call = PageCall("search_webset_items_exa",
                                 [urlPattern |-> u, titlePattern |-> t],
                                 PaginatedBody(data, tail))
            \/ call = PageCall("list_webset_items_exa", NoFilters,
                               PaginatedBody(data, tail))
       \/ \E data \in SeqsUpTo([status : ExportStatuses], MaxPage)
                        \cup {ScenarioExports} :
            call = PageCall("list_exports_exa", NoFilters,
                            PaginatedBody(data, tail))
       \/ \E export \in ExportBodies :
            call = PageCall("get_export_exa", NoFilters, export)

\* search_webset_items_exa: the rest of the try block after the await
SearchReturns ==
  /\ call.stage = "waiting"
  /\ call.op = "search_webset_items_exa"
  /\ call' = [call EXCEPT !.stage = "returned",
                          !.result = SearchFormattedResult(call.filters, call.body)]
  /\ UNCHANGED inv

\* list_webset_items_exa: the rest of the try block after the await
ListItemsReturns ==
  /\ call.stage = "waiting"
  /\ call.op = "list_webset_items_exa"
  /\ call' = [call EXCEPT !.stage = "returned",
                          !.result = ListItemsFormattedResult(call.body)]
  /\ UNCHANGED inv

\* list_exports_exa: the rest of the try block after the await
ListExportsReturns ==
  /\ call.stage = "waiting"
  /\ call.op = "list_exports_exa"
  /\ call' = [call EXCEPT !.stage = "returned",
                          !.result = ListExportsResult(call.body)]
  /\ UNCHANGED inv

\* get_export_exa: the rest of the try block after the await
GetExportReturns ==
  /\ call.stage = "waiting"
  /\ call.op = "get_export_exa"
  /\ call' = [call EXCEPT !.stage = "export-returned",
                          !.result = GetExportResult(call.body)]
  /\ UNCHANGED inv

PageNext ==
  SearchReturns \/ ListItemsReturns \/ ListExportsReturns \/ GetExportReturns

PageSpec == PageInit /\ [][PageNext]_vars

SearchReturned ==
  call.stage = "returned" /\ call.op = "search_webset_items_exa"

\* C11 (as claimed): the items returned are exactly the items of the page
\* whose url matches urlPattern (when given) and whose title matches
\* titlePattern (when given), in the page's order, and matchingItems is
\* their number.  Stated for pages whose items all have a title.
C11_ItemsAreTheMatching ==
  LET f == call.filters
      Claimed(item) ==
        /\ f.urlPattern.given => RegExpTest(f.urlPattern, item.url)
        /\ f.titlePattern.given => RegExpTest(f.titlePattern, item.title)
  IN  (SearchReturned /\ \A k \in 1..Len(call.body.data) :
                           call.body.data[k].hasTitle) =>
        /\ call.result.items = SelectSeq(call.body.data, Claimed)
        /\ call.result.matchingItems = Len(call.result.items)

\* C11 (amended): the items returned are exactly the items of the page whose
\* url matches urlPattern and, when a non-empty titlePattern is given, whose
\* title is present, not empty and matches it, in the page's order, and
\* matchingItems is their number; the scenario page gives 2 and its first
\* and third item.
C11_ItemsAreTheMatchingTitled ==
  LET f == call.filters
      Kept(item) ==
        /\ f.urlPattern.given => RegExpTest(f.urlPattern, item.url)
        /\ PatternTruthy(f.titlePattern) =>
             /\ item.hasTitle
             /\ item.title # <<>>
             /\ RegExpTest(f.titlePattern, item.title)
  IN  SearchReturned =>
        /\ call.result.items = SelectSeq(call.body.data, Kept)
        /\ call.result.matchingItems = Len(call.result.items)
        /\ (call.body.data = ScenarioPage /\ f = ScenarioFilters) =>
             /\ call.result.matchingItems = 2
             /\ call.result.items = << ScenarioPage[1], ScenarioPage[3] >>

\* C11 witness: the scenario page filtered to its two matching items.
C11_Witness ==
  /\ SearchReturned
  /\ call.body.data = ScenarioPage
  /\ call.filters = ScenarioFilters
  /\ call.result.matchingItems = 2

\* C12 (as claimed): a successful search envelope reports the number of
\* items of the fetched page as well as the number left after filtering.
C12_ReportsBothCounts ==
  SearchReturned =>
    /\ "matchingItems" \in DOMAIN call.result
    /\ call.result.matchingItems = Len(call.result.items)
    /\ "itemCount" \in DOMAIN call.result
    /\ call.result.itemCount = Len(call.body.data)

\* C13: hasMore and nextCursor of a successful search, item list or export
\* list result are those of the server's page, however many items the
\* local filters removed.
C13_PaginationFieldsUntouched ==
  call.stage = "returned" =>
    /\ call.result.hasMore = call.body.hasMore
    /\ call.result.nextCursor = call.body.nextCursor

\* C13 witness: a search whose filters removed every item of a page that
\* has a successor.
C13_Witness ==
  /\ SearchReturned
  /\ Len(call.body.data) > 0
  /\ call.result.matchingItems = 0
  /\ call.body.hasMore
  /\ call.result.hasMore
  /\ call.result.nextCursor = "cursor-2"

ExportsReturned == call.stage = "returned" /\ call.op = "list_exports_exa"

\* C20: the summary of list_exports_exa holds, for each of completed,
\* pending, processing and failed, the number of exports of the page with
\* that status, and total is the page length; an export with another status
\* counts in total only, so the four counts sum to at most total; the page
\* completed, pending, failed gives 1, 1, 0, 1.
C20_ExportSummaryCounts ==
  LET data == call.body.data
      sum == call.result.summary
      N(status) == Cardinality({ k \in 1..Len(data) : data[k].status = status })
  IN  ExportsReturned =>
        /\ sum.total = Len(data)
        /\ sum.completed = N("completed")
        /\ sum.pending = N("pending")
        /\ sum.processing = N("processing")
        /\ sum.failed = N("failed")
        /\ sum.completed + sum.pending + sum.processing + sum.failed
             = sum.total - N("canceled")
        /\ data = ScenarioExports =>
             sum = [total |-> 3, completed |-> 1, pending |-> 1,
                    processing |-> 0, failed |-> 1]

\* C20 witness: the summary of the page completed, pending, failed.
C20_Witness ==
  /\ ExportsReturned
  /\ call.body.data = ScenarioExports
  /\ call.result.summary.completed = 1
  /\ call.result.summary.pending = 1
  /\ call.result.summary.processing = 0
  /\ call.result.summary.failed = 1

(***************************************************************************)
(* The query string of the list and search handlers.                       *)
(*                                                                         *)
(* Arguments of a list call: cursor is Absent (not supplied) or a string,  *)
(* "" included; limit is [given, value]; supplied is the set of the other  *)
(* optional filter arguments the caller supplied (with a non-empty value). *)
(* A query is the cursor and limit parameters (Absent: no such parameter)  *)
(* and the names of the other parameters.                                  *)
(***************************************************************************)
ListTools ==
  { "list_imports_exa", "list_webset_monitors_exa", "list_monitor_runs_exa",
    "list_webhooks_exa", "list_webhook_attempts_exa", "list_events_exa",
    "list_webset_items_exa", "search_webset_items_exa", "list_exports_exa" }

\* limit: z.number().optional().default(20) of listExportsSchema
ExportsDefaultLimit == 20

LimitNotGiven == [given |-> FALSE, value |-> 0]

\* The optional arguments, other than cursor and limit, that a handler
\* turns into query parameters (for search_webset_items_exa the plain
\* fields of filters).
QueryFilterFields(op) ==
  CASE op = "list_imports_exa"          -> {"status", "websetId"}
    [] op = "list_webset_monitors_exa"  -> {"status"}
    [] op = "list_monitor_runs_exa"     -> {"status"}
    [] op = "list_webhooks_exa"         -> {"status"}
    [] op = "list_webhook_attempts_exa" -> {"eventType"}
    [] op = "list_events_exa"           -> {"eventType", "websetId"}
    [] op \in {"list_webset_items_exa", "search_webset_items_exa"} ->
         {"type", "verificationStatus", "hasEnrichedData", "createdAfter",
          "createdBefore", "updatedAfter", "updatedBefore"}
    [] OTHER                            -> {}

\* The arguments as the handler receives them: the schema of
\* list_exports_exa fills in the default of limit.
ParsedListArgs(op, args) ==
  IF op = "list_exports_exa" /\ ~args.limit.given
  THEN [args EXCEPT !.limit = [given |-> TRUE, value |-> ExportsDefaultLimit]]
  ELSE args

ListQuery_CursorNotForwarded(op, args) ==
  LET a == ParsedListArgs(op, args) IN
  [cursor |-> Absent,
   limit  |-> IF op = "list_exports_exa" THEN ToString(a.limit.value)
              ELSE IF a.limit.given /\ a.limit.value # 0
                   THEN ToString(a.limit.value) ELSE Absent,
   others |-> a.supplied \cap QueryFilterFields(op)]

ListQuery_DefaultLimitSent(op, args) ==
  LET a == ParsedListArgs(op, args) IN
  [cursor |-> IF a.cursor # Absent /\ a.cursor # "" THEN a.cursor ELSE Absent,
   limit  |-> IF op = "list_exports_exa" THEN ToString(a.limit.value)
              ELSE IF a.limit.given /\ a.limit.value # 0
                   THEN ToString(a.limit.value) ELSE "25",
   others |-> a.supplied \cap QueryFilterFields(op)]

\* if (cursor) params.append('cursor', cursor);
\* if (limit) params.append('limit', limit.toString());
\* list_exports_exa: params = { limit }; if (cursor) params.cursor = cursor
ListQuery(op, args) ==
  LET a == ParsedListArgs(op, args) IN
  [cursor |-> IF a.cursor # Absent /\ a.cursor # "" THEN a.cursor ELSE Absent,
   limit  |-> IF op = "list_exports_exa" THEN ToString(a.limit.value)
              ELSE IF a.limit.given /\ a.limit.value # 0
                   THEN ToString(a.limit.value) ELSE Absent,
   others |-> a.supplied \cap QueryFilterFields(op)]

NoQuery == [cursor |-> Absent, limit |-> Absent, others |-> {}]

ListArgChoices(op) ==
  [cursor   : {Absent, "", "cursor-2"},
   limit    : {LimitNotGiven} \cup [given : {TRUE}, value : {0, 1, 25}],
   supplied : {{}, QueryFilterFields(op)}]

QueryInit ==
  /\ inv = NoInvocations
  /\ \E op \in ListTools : \E args \in ListArgChoices(op) :
       call = [stage |-> "handler", op |-> op, args |-> args, query |-> NoQuery]

\* The handler builds the query parameters of its request.
BuildQuery ==
  /\ call.stage = "handler"
  /\ call' = [call EXCEPT !.stage = "built",
                          !.query = ListQuery(call.op, call.args)]
  /\ UNCHANGED inv

QueryNext == BuildQuery

QuerySpec == QueryInit /\ [][QueryNext]_vars

\* C15 (as claimed): whenever the caller supplies cursor or limit, whatever
\* the value (0 and the empty string included), the query holds that
\* parameter with exactly the supplied value.
C15_CursorLimitForwarded ==
  call.stage = "built" =>
    /\ call.args.cursor # Absent => call.query.cursor = call.args.cursor
    /\ call.args.limit.given =>
         call.query.limit = ToString(call.args.limit.value)

\* C16 (as claimed): the query holds no parameter for an optional argument
\* the caller left unset; a call without limit or cursor sends neither.
C16_UnsetNotSent ==
  call.stage = "built" =>
    /\ call.args.cursor = Absent => call.query.cursor = Absent
    /\ ~call.args.limit.given => call.query.limit = Absent
    /\ call.query.others \subseteq call.args.supplied

\* C16 (amended): the query holds no parameter for an optional argument the
\* caller left unset, except that list_exports_exa always sends limit, with
\* the declared default 20 when the caller left it unset.
C16_UnsetNotSentButExportsLimit ==
  call.stage = "built" =>
    /\ call.args.cursor = Absent => call.query.cursor = Absent
    /\ ~call.args.limit.given =>
         call.query.limit =
           IF call.op = "list_exports_exa" THEN "20" ELSE Absent
    /\ call.query.others \subseteq call.args.supplied

\* C16 witness: list_webset_items_exa called with websetId only builds an
\* empty query.
C16_Witness ==
  /\ call.stage = "built"
  /\ call.op = "list_webset_items_exa"
  /\ call.args.cursor = Absent
  /\ ~call.args.limit.given
  /\ call.args.supplied = {}
  /\ call.query = NoQuery

(***************************************************************************)
(* Pagination round trip.  The remote service holds `pages` pages behind   *)
(* one list endpoint and names page k+1 by the opaque token CursorOf(k+1)  *)
(* in the body of page k; a request without cursor parameter asks for      *)
(* page 1.  The caller repeats the same list call with the nextCursor of   *)
(* the previous result and identical filters until hasMore is false.       *)
(***************************************************************************)
MaxServerPages == 3

CursorOf(k) == "cursor-" \o ToString(k)

PageOfCursor(c) == CHOOSE k \in 1..(MaxServerPages + 1) : CursorOf(k) = c

\* the page a request asks the service for
ServerPageOf(query) ==
  IF query.cursor = Absent THEN 1 ELSE PageOfCursor(query.cursor)

\* the body of page k of `pages`
ServerPage(k, pages) ==
  PaginatedBody(<< >>,
                [hasMore    |-> k < pages,
                 nextCursor |-> IF k < pages THEN CursorOf(k + 1) ELSE Absent])

\* What a list handler returns for a 2xx body: the formatted result of the
\* item tools, the envelope of list_exports_exa, and the body itself
\* (JSON.stringify(response.data)) for the other list tools.
ListResult(op, body) ==
  CASE op = "search_webset_items_exa" -> SearchFormattedResult(NoFilters, body)
    [] op = "list_webset_items_exa"   -> ListItemsFormattedResult(body)
    [] op = "list_exports_exa"        -> ListExportsResult(body)
    [] OTHER                          -> body

CursorInit ==
  /\ inv = NoInvocations
  /\ \E op \in ListTools, pages \in 1..MaxServerPages :
     \E args \in ListArgChoices(op) :
       /\ args.cursor = Absent
       /\ args.limit.value # 0
       /\ call = [stage |-> "paging-caller", op |-> op, args |-> args,
                  pages |-> pages, requested |-> << >>, query |-> NoQuery,
                  last |-> NoResult]

\* The caller invokes the list operation; the handler sends its request.
ListCallIssued ==
  /\ call.stage = "paging-caller"
  /\ Len(call.requested) <= MaxServerPages
  /\ LET query == ListQuery(call.op, call.args) IN
       call' = [call EXCEPT !.stage = "paging-waiting",
                            !.query = query,
                            !.requested = Append(@, ServerPageOf(query))]
  /\ UNCHANGED inv

\* The service answers with the requested page; the handler returns its
\* result; the caller takes nextCursor for its next call, or stops.
ListCallReturns ==
  /\ call.stage = "paging-waiting"
  /\ LET k      == call.requested[Len(call.requested)]
         result == ListResult(call.op, ServerPage(k, call.pages))
     IN  call' = [call EXCEPT !.last = result,
                              !.stage = IF result.hasMore THEN "paging-caller"
                                        ELSE "paging-finished",
                              !.args.cursor = IF result.hasMore
                                              THEN result.nextCursor ELSE @]
  /\ UNCHANGED inv

CursorNext == ListCallIssued \/ ListCallReturns

CursorSpec == CursorInit /\ [][CursorNext]_vars

\* C14: in a round trip that starts without cursor and replays nextCursor
\* with identical filters, the k-th call requests server page k (no page
\* skipped or requested twice), the caller has a page left to ask for as
\* long as it has not finished, and the round trip finishes after the last
\* page with a result that has hasMore = false and no nextCursor.
C14_PaginationRoundTrip ==
  /\ call.requested = [k \in 1..Len(call.requested) |-> k]
  /\ call.stage = "paging-caller" => Len(call.requested) < call.pages
  /\ call.stage = "paging-finished" =>
       /\ Len(call.requested) = call.pages
       /\ ~call.last.hasMore
       /\ call.last.nextCursor = Absent

\* C14 witness: list_imports_exa has walked a service of three pages.
C14_Witness ==
  /\ call.stage = "paging-finished"
  /\ call.op = "list_imports_exa"
  /\ call.pages = 3
  /\ call.requested = <<1, 2, 3>>
  /\ call.query.cursor = "cursor-3"

(***************************************************************************)
(* The JSON body of the mutating operations.                               *)
(*                                                                         *)
(* An optional body argument is Unset, EmptyValue (the empty string, the   *)
(* empty array, the empty object) or SomeValue.  A body maps the names of  *)
(* the fields it holds to their values.                                    *)
(***************************************************************************)
MutatingTools ==
  { "create_import_exa", "update_import_exa", "create_webset_monitor_exa",
    "update_webset_monitor_exa", "create_webhook_exa", "update_webhook_exa",
    "create_export_exa", "update_webset_item_exa", "batch_update_items_exa",
    "batch_delete_items_exa", "batch_verify_items_exa" }

Unset == "unset"
EmptyValue == "empty"
SomeValue == "value"

\* fields the handler always puts in the body
BodyRequired(op) ==
  CASE op = "create_import_exa"         -> {"sourceUrl"}
    [] op = "update_import_exa"         -> {"status"}
    [] op = "create_webset_monitor_exa" -> {"websetId", "cadence"}
    [] op = "create_webhook_exa"        -> {"url", "events"}
    [] op = "create_export_exa"         -> {"format"}
    [] op = "batch_update_items_exa"    -> {"itemIds", "updates"}
    [] op = "batch_delete_items_exa"    -> {"itemIds"}
    [] op = "batch_verify_items_exa"    -> {"itemIds", "status"}
    [] OTHER                            -> {}

\* optional arguments that go to the body
BodyOptional(op) ==
  CASE op = "create_import_exa"         -> {"fileType", "websetId", "metadata"}
    [] op = "create_webset_monitor_exa" -> {"query", "searchBehavior", "metadata"}
    [] op = "update_webset_monitor_exa" ->
         {"cadence", "query", "status", "searchBehavior", "metadata"}
    [] op = "create_webhook_exa"        -> {"description", "secret"}
    [] op = "update_webhook_exa"        -> {"url", "events", "description", "status"}
    [] op = "create_export_exa"         -> {"filters", "fields"}
    [] op = "update_webset_item_exa"    -> {"metadata", "verification", "customFields"}
    [] op = "batch_verify_items_exa"    -> {"reasoning"}
    [] OTHER                            -> {}

\* z.string() fields: their empty value is falsy
StringFields == {"websetId", "query", "description", "secret", "url", "reasoning"}

\* z.enum() fields and verification (an object with a required status):
\* they have no empty value
NonEmptyFields ==
  {"fileType", "searchBehavior", "status", "cadence", "verification"}

ValuesOf(f) ==
  IF f \in NonEmptyFields THEN {Unset, SomeValue}
  ELSE {Unset, EmptyValue, SomeValue}

\* JavaScript truthiness of an argument value
Truthy(f, v) == v = SomeValue \/ (v = EmptyValue /\ f \notin StringFields)

\* ...(args.f && { f: args.f }); if (updateData.f) requestBody.f = ...;
\* if (updateData.description !== undefined) ...; requestBody = updateData
Included(op, f, v) ==
  IF \/ op = "update_webset_monitor_exa"
     \/ op = "update_webhook_exa" /\ f = "description"
  THEN v # Unset
  ELSE Truthy(f, v)

RequestBody(op, args) ==
  LET included == BodyRequired(op) \cup
                  { f \in BodyOptional(op) : Included(op, f, args[f]) }
  IN  [f \in included |-> IF f \in BodyRequired(op) THEN SomeValue ELSE args[f]]

NoBody == [none |-> Unset]

BodyInit ==
  /\ inv = NoInvocations
  /\ \E op \in MutatingTools : \E args \in [BodyOptional(op) -> {Unset, EmptyValue, SomeValue}] :
       /\ \A f \in BodyOptional(op) : args[f] \in ValuesOf(f)
       /\ call = [stage |-> "mutating", op |-> op, args |-> args, body |-> NoBody]

\* The handler builds the JSON body of its request.
BuildBody ==
  /\ call.stage = "mutating"
  /\ call' = [call EXCEPT !.stage = "body-built",
                          !.body = RequestBody(call.op, call.args)]
  /\ UNCHANGED inv

BodyNext == BuildBody

BodySpec == BodyInit /\ [][BodyNext]_vars

\* C17 (as claimed): the body of a mutating operation holds every required
\* field and, of the optional fields, exactly those the caller supplied,
\* each with the supplied value, whatever that value is.
C17_BodyHasExactlySupplied ==
  call.stage = "body-built" =>
    /\ DOMAIN call.body =
         BodyRequired(call.op) \cup
         { f \in BodyOptional(call.op) : call.args[f] # Unset }
    /\ \A f \in BodyOptional(call.op) \cap DOMAIN call.body :
         call.body[f] = call.args[f]

(***************************************************************************)
(* Path resolution.  A string is a sequence of tokens: a literal stretch   *)
(* of a path ("/websets/"), a placeholder (":websetId"), the replacement   *)
(* pattern "$&", or a stretch of ordinary characters of an identifier.     *)
(***************************************************************************)
\* API_CONFIG.ENDPOINTS: the path templates, by the placeholders the
\* handlers replace in them.
EndpointTemplate(name) ==
  CASE name = "IMPORTS"              -> << "/imports" >>
    [] name = "IMPORT_BY_ID"         -> << "/imports/", ":importId" >>
    [] name = "WEBSET_MONITORS"      -> << "/websets/", ":websetId", "/monitors" >>
    [] name = "WEBSET_MONITOR_BY_ID" ->
         << "/websets/", ":websetId", "/monitors/", ":monitorId" >>
    [] name = "WEBSET_MONITOR_RUNS"  ->
         << "/websets/", ":websetId", "/monitors/", ":monitorId", "/runs" >>
    [] name = "WEBHOOKS"             -> << "/webhooks" >>
    [] name = "WEBHOOK_BY_ID"        -> << "/webhooks/", ":webhookId" >>
    [] name = "WEBHOOK_ATTEMPTS"     -> << "/webhooks/", ":webhookId", "/attempts" >>
    [] name = "EVENTS"               -> << "/events" >>
    [] name = "EVENT_BY_ID"          -> << "/events/", ":eventId" >>
    [] name = "WEBSET_ITEMS"         -> << "/websets/", ":websetId", "/items" >>
    [] name = "WEBSET_ITEM_BY_ID"    ->
         << "/websets/", ":websetId", "/items/", ":itemId" >>
    [] name = "WEBSET_EXPORTS"       -> << "/websets/", ":websetId", "/exports" >>
    [] name = "WEBSET_EXPORT_BY_ID"  ->
         << "/websets/", ":websetId", "/exports/", ":exportId" >>

\* the ENDPOINTS entry a handler starts from
EndpointName(op) ==
  CASE op = "get_monitor_run_exa" -> "WEBSET_MONITOR_RUNS"
    [] op \in BatchTools \ {"update_webset_item_exa"} -> "WEBSET_ITEMS"
    [] OTHER -> Endpoint(op)

\* the placeholders a handler replaces, in the order of its .replace calls
Replacements(op) ==
  LET template == EndpointTemplate(EndpointName(op))
      IsPlaceholder(t) == t \in { ":importId", ":websetId", ":monitorId",
                                  ":webhookId", ":eventId", ":itemId",
                                  ":exportId" }
  IN  SelectSeq(template, IsPlaceholder)

\* the arguments that go to the path
PathArgs(op) ==
  { Replacements(op)[k] : k \in 1..Len(Replacements(op)) } \cup
  (IF op = "get_monitor_run_exa" THEN {":runId"} ELSE {})

\* what the handler appends to the template before it replaces
PathSuffix(op, args) ==
  CASE op = "batch_update_items_exa" -> << "/batch-update" >>
    [] op = "batch_delete_items_exa" -> << "/batch-delete" >>
    [] op = "batch_verify_items_exa" -> << "/batch-verify" >>
    [] op = "get_monitor_run_exa"    -> << "/" >> \o args[":runId"]
    [] OTHER                         -> << >>

RECURSIVE Flatten(_)
Flatten(seqs) ==
  IF seqs = << >> THEN << >> ELSE Head(seqs) \o Flatten(Tail(seqs))

\* the replacement string of String.prototype.replace: $& inserts the
\* matched substring
ExpandReplacement(replacement, matched) ==
  [k \in 1..Len(replacement) |->
     IF replacement[k] = "$&" THEN matched ELSE replacement[k]]

\* str.replace(pattern, replacement) with a string pattern: the first
\* occurrence only
JsReplace(str, pattern, replacement) ==
  LET hits == { k \in 1..Len(str) : str[k] = pattern } IN
  IF hits = {} THEN str
  ELSE LET first == CHOOSE k \in hits : \A j \in hits : k <= j
       IN  SubSeq(str, 1, first - 1)
             \o ExpandReplacement(replacement, pattern)
             \o SubSeq(str, first + 1, Len(str))

RECURSIVE ReplaceAllOf(_, _, _)
ReplaceAllOf(str, placeholders, args) ==
  IF placeholders = << >> THEN str
  ELSE ReplaceAllOf(JsReplace(str, Head(placeholders), args[Head(placeholders)]),
                    Tail(placeholders), args)

\* the url the handler hands to axios
ResolveUrl(op, args) ==
  ReplaceAllOf(EndpointTemplate(EndpointName(op)) \o PathSuffix(op, args),
               Replacements(op), args)

\* the template with each placeholder position holding its argument
PositionalUrl(op, args) ==
  LET template == EndpointTemplate(EndpointName(op)) IN
  Flatten([k \in 1..Len(template) |->
             IF template[k] \in PathArgs(op) THEN args[template[k]]
             ELSE << template[k] >>])
    \o PathSuffix(op, args)

\* identifiers the argument shape (z.string()) accepts
PathValues(op) ==
  { << "id" >>, << "$&" >>, << "id", "$&" >> } \cup
  { << p >> : p \in PathArgs(op) }

NoUrl == << >>

PathInit ==
  /\ inv = NoInvocations
  /\ \E op \in Operations : \E args \in [PathArgs(op) -> PathValues(op)] :
       call = [stage |-> "resolving", op |-> op, args |-> args, url |-> NoUrl]

\* The handler resolves the placeholders of its path template.
ResolvePath ==
  /\ call.stage = "resolving"
  /\ call' = [call EXCEPT !.stage = "resolved",
                          !.url = ResolveUrl(call.op, call.args)]
  /\ UNCHANGED inv

PathNext == ResolvePath

PathSpec == PathInit /\ [][PathNext]_vars

\* C18 (as claimed): for every operation and every accepted argument value
\* the path of the request holds, at each placeholder position of the
\* template, exactly the corresponding argument value, so no placeholder is
\* left unresolved.
C18_PlaceholdersResolved ==
  call.stage = "resolved" => call.url = PositionalUrl(call.op, call.args)

(***************************************************************************)
(* The batch operations: one request for the whole itemIds array.          *)
(***************************************************************************)
MaxIds == 3

BatchOperations ==
  { "batch_update_items_exa", "batch_delete_items_exa",
    "batch_verify_items_exa" }

ItemIdValues == {"item_a", "item_b"}

\* the single payload that goes with the identifiers
BatchPayload(op) ==
  CASE op = "batch_update_items_exa" -> "updates"
    [] op = "batch_verify_items_exa" -> "verification"
    [] op = "batch_delete_items_exa" -> Absent

\* const body = { itemIds, updates } / { itemIds } /
\*              { itemIds, verification: { status, ... } }
BatchBody(op, itemIds) ==
  [itemIds |-> itemIds, payload |-> BatchPayload(op)]

\* what the service may answer on success: how many items it changed
BatchResponses == [updated : 0..MaxIds]

BatchSuccess_CountFromResponse(op, itemIds, body) ==
  [success |-> TRUE, data |-> body, count |-> body.updated]

\* { success: true, data: response.data,
\*   message: `Successfully updated ${itemIds.length} items` }
BatchSuccess(op, itemIds, body) ==
  [success |-> TRUE, data |-> body, count |-> Len(itemIds)]

\* the envelope of the catch block
BatchFailure == [success |-> FALSE, data |-> Absent, count |-> 0]

BatchInit ==
  /\ inv = NoInvocations
  /\ \E op \in BatchOperations, itemIds \in SeqsUpTo(ItemIdValues, MaxIds) :
       call = [stage |-> "batch-handler", op |-> op, itemIds |-> itemIds,
               requests |-> << >>, result |-> NoResult]

\* The handler builds the body and posts it.
BatchPost ==
  /\ call.stage = "batch-handler"
  /\ call' = [call EXCEPT !.stage = "batch-waiting",
                          !.requests = Append(@, BatchBody(call.op, call.itemIds))]
  /\ UNCHANGED inv

\* The service answers 2xx.
BatchSucceeds ==
  /\ call.stage = "batch-waiting"
  /\ \E body \in BatchResponses :
       call' = [call EXCEPT !.stage = "batch-ok",
                            !.result = BatchSuccess(call.op, call.itemIds, body)]
  /\ UNCHANGED inv

\* The request fails; the catch block returns.
BatchFails ==
  /\ call.stage = "batch-waiting"
  /\ call' = [call EXCEPT !.stage = "batch-failed", !.result = BatchFailure]
  /\ UNCHANGED inv

BatchNext == BatchPost \/ BatchSucceeds \/ BatchFails

BatchSpec == BatchInit /\ [][BatchNext]_vars

\* C19: a batch operation sends exactly one request, whose body carries the
\* whole itemIds array (empty or with duplicates included) with the single
\* payload, and on success reports a count equal to the number of
\* identifiers submitted, whatever the response body says.
C19_BatchOneRequestCountSubmitted ==
  /\ call.stage = "batch-handler" => call.requests = << >>
  /\ call.stage \in {"batch-waiting", "batch-ok", "batch-failed"} =>
       /\ Len(call.requests) = 1
       /\ call.requests[1].itemIds = call.itemIds
       /\ call.requests[1].payload = BatchPayload(call.op)
  /\ call.stage = "batch-ok" =>
       /\ call.result.success
       /\ call.result.count = Len(call.itemIds)

\* C19 witness: batch_update_items_exa with a duplicated id succeeded while
\* the service changed nothing: the count is 2.
C19_Witness ==
  /\ call.stage = "batch-ok"
  /\ call.op = "batch_update_items_exa"
  /\ call.itemIds = << "item_a", "item_a" >>
  /\ call.result.data.updated = 0
  /\ call.result.count = 2
  /\ Len(call.requests) = 1

(***************************************************************************)
(* Further properties of the page specification.                           *)
(***************************************************************************)
\* C21: downloadReady of a get_export_exa result is true exactly when the
\* export's status is completed and its download URL is present and not
\* empty.
C21_DownloadReadyIffCompletedWithUrl ==
  call.stage = "export-returned" =>
    (call.result.downloadReady <=>
       /\ call.body.status = "completed"
       /\ call.body.downloadUrl # Absent
       /\ call.body.downloadUrl # "")

\* C21 witness: a completed export without download URL is not ready.
C21_Witness ==
  /\ call.stage = "export-returned"
  /\ call.body.status = "completed"
  /\ call.body.downloadUrl = Absent
  /\ ~call.result.downloadReady

\* C25: the pattern filter is idempotent: filtering the returned items
\* again with the same patterns returns the same items.
C25_FilterIdempotent ==
  SearchReturned =>
    /\ call.result.items = SearchFilter(call.filters, call.body.data)
    /\ SearchFilter(call.filters, call.result.items) = call.result.items

\* C25 witness: the scenario page, of which the filter removed three items
\* and kept two.
C25_Witness ==
  /\ SearchReturned
  /\ call.body.data = ScenarioPage
  /\ call.filters = ScenarioFilters
  /\ Len(call.result.items) = 2
  /\ SearchFilter(call.filters, call.result.items) = call.result.items

\* C30 (as claimed): whenever titlePattern is supplied no returned item is
\* without a title or has an empty one; when only urlPattern is supplied
\* the items returned are the items whose url matches, titled or not.
C30_SuppliedTitlePatternExcludesUntitled ==
  LET f == call.filters
      UrlKept(item) == RegExpTest(f.urlPattern, item.url)
  IN  SearchReturned =>
        /\ f.titlePattern.given =>
             \A k \in 1..Len(call.result.items) :
               /\ call.result.items[k].hasTitle
               /\ call.result.items[k].title # <<>>
        /\ (f.urlPattern.given /\ ~f.titlePattern.given) =>
             call.result.items = SelectSeq(call.body.data, UrlKept)

\* C30 (amended): whenever a non-empty titlePattern is supplied no returned
\* item is without a title or has an empty one, even when the pattern
\* matches the empty string; when no titlePattern or the empty one is
\* supplied together with a urlPattern, the items returned are the items
\* whose url matches, titled or not.
C30_NonEmptyTitlePatternExcludesUntitled ==
  LET f == call.filters
      UrlKept(item) == RegExpTest(f.urlPattern, item.url)
  IN  SearchReturned =>
        /\ PatternTruthy(f.titlePattern) =>
             \A k \in 1..Len(call.result.items) :
               /\ call.result.items[k].hasTitle
               /\ call.result.items[k].title # <<>>
        /\ (f.urlPattern.given /\ ~PatternTruthy(f.titlePattern)) =>
             call.result.items = SelectSeq(call.body.data, UrlKept)

\* C30 witness: the pattern "^" matches the empty string, yet the item with
\* the empty title and the item without title are both left out.
C30_Witness ==
  /\ SearchReturned
  /\ call.filters.titlePattern = [given |-> TRUE, anchored |-> TRUE, lit |-> <<>>]
  /\ Len(call.body.data) = 2
  /\ ~call.body.data[1].hasTitle
  /\ call.body.data[2].hasTitle /\ call.body.data[2].title = <<>>
  /\ call.result.items = << >>

(***************************************************************************)
(* The dotted query parameters of search_webset_items_exa.                 *)
(*                                                                         *)
(* A map (z.record) is absent or a sequence of entries [key, value] with   *)
(* distinct keys, in the order of Object.entries.  The parameters are the  *)
(* sequence of the params.append calls.                                    *)
(***************************************************************************)
MaxEntries == 2

MapAbsent == [given |-> FALSE, entries |-> << >>]

DistinctKeys(entries) ==
  \A i, j \in 1..Len(entries) : entries[i].key = entries[j].key => i = j

MapsOver(keys, values) ==
  {MapAbsent} \cup
  { [given |-> TRUE, entries |-> e] :
      e \in { x \in SeqsUpTo([key : keys, value : values], MaxEntries) :
                DistinctKeys(x) } }

\* filters.metadata: z.record(z.string())
MetadataMaps == MapsOver({"a", "b.c", ""}, {"", "x"})

\* filters.enrichmentStatus: z.record(z.enum([...]))
EnrichmentStatusMaps == MapsOver({"a", "e1"}, {"completed", "pending", "failed"})

MapParams_SkipsEmptyValues(prefix, map) ==
  LET NotEmpty(e) == e.value # ""
      kept == SelectSeq(map.entries, NotEmpty)
  IN  [i \in 1..Len(kept) |->
         [name |-> prefix \o "." \o kept[i].key, value |-> kept[i].value]]

\* if (filters?.metadata) Object.entries(filters.metadata).forEach(
\*   ([key, value]) => params.append(`metadata.${key}`, value))
MapParams(prefix, map) ==
  IF ~map.given THEN << >>
  ELSE [i \in 1..Len(map.entries) |->
          [name  |-> prefix \o "." \o map.entries[i].key,
           value |-> map.entries[i].value]]

\* the parameters the handler derives from the two maps
DottedParams(filters) ==
  MapParams("metadata", filters.metadata)
    \o MapParams("enrichmentStatus", filters.enrichmentStatus)

FilterInit ==
  /\ inv = NoInvocations
  /\ \E m \in MetadataMaps, e \in EnrichmentStatusMaps :
       call = [stage |-> "search-handler",
               filters |-> [metadata |-> m, enrichmentStatus |-> e],
               params |-> << >>]

\* The handler appends the parameters of the two maps.
AppendMapParams ==
  /\ call.stage = "search-handler"
  /\ call' = [call EXCEPT !.stage = "params-built",
                          !.params = DottedParams(call.filters)]
  /\ UNCHANGED inv

FilterNext == AppendMapParams

FilterSpec == FilterInit /\ [][FilterNext]_vars

\* the positions of the parameter of a given name
ParamsNamed(params, name) == { i \in 1..Len(params) : params[i].name = name }

\* C28: each entry (k, v) of filters.metadata yields exactly one parameter
\* metadata.k, with value v, each entry of filters.enrichmentStatus exactly
\* one parameter enrichmentStatus.k, with value v, and there is no other
\* parameter; an absent map yields none.
C28_DottedParamsPerEntry ==
  LET m == call.filters.metadata.entries
      e == call.filters.enrichmentStatus.entries
  IN  call.stage = "params-built" =>
        /\ \A i \in 1..Len(m) :
             LET hits == ParamsNamed(call.params, "metadata." \o m[i].key) IN
             /\ Cardinality(hits) = 1
             /\ \A h \in hits : call.params[h].value = m[i].value
        /\ \A i \in 1..Len(e) :
             LET hits == ParamsNamed(call.params,
                                     "enrichmentStatus." \o e[i].key) IN
             /\ Cardinality(hits) = 1
             /\ \A h \in hits : call.params[h].value = e[i].value
        /\ Len(call.params) = Len(m) + Len(e)

\* C28 witness: metadata {a: "", "b.c": "x"} and enrichmentStatus
\* {a: "failed"} give the three parameters metadata.a, metadata.b.c and
\* enrichmentStatus.a.
C28_Witness ==
  /\ call.stage = "params-built"
  /\ call.filters.metadata.entries =
       << [key |-> "a", value |-> ""], [key |-> "b.c", value |-> "x"] >>
  /\ call.filters.enrichmentStatus.entries =
       << [key |-> "a", value |-> "failed"] >>
  /\ call.params =
       << [name |-> "metadata.a", value |-> ""],
          [name |-> "metadata.b.c", value |-> "x"],
          [name |-> "enrichmentStatus.a", value |-> "failed"] >>

(***************************************************************************)
(* The authentication header.  The register functions receive an optional  *)
(* config whose exaApiKey is optional; process.env.EXA_API_KEY is unset or *)
(* a string.                                                               *)
(***************************************************************************)
NoConfig == [given |-> FALSE, exaApiKey |-> Absent]

Configs ==
  {NoConfig} \cup [given : {TRUE}, exaApiKey : {Absent, "", "key-of-config"}]

EnvValues == {Absent, "", "key-of-env"}

ApiKeyHeader_EnvFirst(config, env) ==
  IF env # Absent /\ env # "" THEN env
  ELSE IF config.given /\ config.exaApiKey # Absent /\ config.exaApiKey # ""
       THEN config.exaApiKey
       ELSE ""

\* 'x-api-key': config?.exaApiKey || process.env.EXA_API_KEY || ''
ApiKeyHeader(config, env) ==
  IF config.given /\ config.exaApiKey # Absent /\ config.exaApiKey # ""
  THEN config.exaApiKey
  ELSE IF env # Absent /\ env # "" THEN env
       ELSE ""

KeyInit ==
  /\ inv = NoInvocations
  /\ \E op \in Operations, config \in Configs, env \in EnvValues :
       call = [stage |-> "key-handler", op |-> op, config |-> config,
               env |-> env, header |-> Absent, sent |-> 0]

\* The handler builds the headers of its request.
BuildHeaders ==
  /\ call.stage = "key-handler"
  /\ call' = [call EXCEPT !.stage = "headers-built",
                          !.header = ApiKeyHeader(call.config, call.env)]
  /\ UNCHANGED inv

\* The handler issues the request with these headers.
SendWithHeaders ==
  /\ call.stage = "headers-built"
  /\ call' = [call EXCEPT !.stage = "key-sent", !.sent = @ + 1]
  /\ UNCHANGED inv

KeyNext == BuildHeaders \/ SendWithHeaders

KeySpec == KeyInit /\ [][KeyNext]_vars

\* C26: the x-api-key header of a request is the configured key when that
\* is present and not empty, otherwise the value of EXA_API_KEY, otherwise
\* the empty string; whatever the key, the handler goes on to issue the
\* request.
C26_ApiKeyPrecedence ==
  LET configured == /\ call.config.given
                    /\ call.config.exaApiKey \notin {Absent, ""}
  IN  /\ call.stage \in {"headers-built", "key-sent"} =>
           /\ configured => call.header = call.config.exaApiKey
           /\ (~configured /\ call.env # Absent) => call.header = call.env
           /\ (~configured /\ call.env = Absent) => call.header = ""
      /\ call.stage = "headers-built" => ENABLED SendWithHeaders
      /\ call.stage = "key-sent" => call.sent = 1

\* C26 witness: neither a configured key nor EXA_API_KEY: the request has
\* been issued with an empty x-api-key.
C26_Witness ==
  /\ call.stage = "key-sent"
  /\ call.config = NoConfig
  /\ call.env = Absent
  /\ call.header = ""
  /\ call.sent = 1

(***************************************************************************)
(* The events argument of the webhook tools and its validation.            *)
(***************************************************************************)
MaxEvents == 2

\* events: z.array(z.enum([...])) of create_webhook_exa
CreateWebhookEvents ==
  { "webset.created", "webset.deleted", "webset.paused", "webset.idle",
    "webset.search.created", "webset.search.completed",
    "webset.search.canceled",
    "webset.item.created", "webset.item.enriched",
    "import.created", "import.completed",
    "webset.monitor.run.started", "webset.monitor.run.completed" }

\* events: z.array(z.enum([...])).optional() of update_webhook_exa
UpdateWebhookEvents ==
  { "webset.created", "webset.deleted", "webset.paused", "webset.idle",
    "webset.search.created", "webset.search.completed",
    "webset.search.canceled",
    "webset.item.created", "webset.item.enriched", "webset.item.updated",
    "webset.item.deleted",
    "import.created", "import.completed", "import.processing",
    "import.failed", "import.canceled",
    "webset.export.created", "webset.export.completed",
    "webset.export.failed",
    "webset.monitor.run.started", "webset.monitor.run.completed",
    "webset.monitor.run.failed",
    "webhook.created", "webhook.updated", "webhook.deleted" }

WebhookTools == {"create_webhook_exa", "update_webhook_exa"}

EventsOf(op) ==
  IF op = "create_webhook_exa" THEN CreateWebhookEvents
  ELSE UpdateWebhookEvents

\* an event type no argument shape names
UnsupportedEvent == "webset.renamed"

\* z.array(z.enum(...)).parse: every element is a member of the enum
AcceptsEvents(op, events) ==
  \A k \in 1..Len(events) : events[k] \in EventsOf(op)

EventInit ==
  /\ inv = NoInvocations
  /\ \E op \in WebhookTools :
     \E events \in SeqsUpTo(UpdateWebhookEvents \cup {UnsupportedEvent},
                            MaxEvents) :
       call = [stage |-> "validating", op |-> op, events |-> events,
               envelope |-> NoEnvelope, sent |-> 0]

\* The argument shape rejects the events: a failure envelope, no request.
EventsRejected ==
  /\ call.stage = "validating"
  /\ ~AcceptsEvents(call.op, call.events)
  /\ call' = [call EXCEPT !.stage = "events-rejected",
                          !.envelope = ValidationEnvelope]
  /\ UNCHANGED inv

\* The argument shape accepts the events: the handler runs.
EventsAccepted ==
  /\ call.stage = "validating"
  /\ AcceptsEvents(call.op, call.events)
  /\ call' = [call EXCEPT !.stage = "events-accepted"]
  /\ UNCHANGED inv

\* The handler sends its request.
WebhookRequestSent ==
  /\ call.stage = "events-accepted"
  /\ call' = [call EXCEPT !.stage = "webhook-sent", !.sent = @ + 1]
  /\ UNCHANGED inv

EventNext == EventsRejected \/ EventsAccepted \/ WebhookRequestSent

EventSpec == EventInit /\ [][EventNext]_vars

\* C22 (as claimed): events that hold an unsupported event type are
\* rejected with a failure envelope before any request, and the supported
\* event types are one set: what create_webhook_exa accepts
\* update_webhook_exa accepts, and the other way round.
C22_OneClosedEventSet ==
  /\ call.stage = "events-rejected" =>
       /\ call.sent = 0
       /\ call.envelope.failed
  /\ call.stage \in {"events-accepted", "webhook-sent"} =>
       /\ \A k \in 1..Len(call.events) : call.events[k] # UnsupportedEvent
       /\ AcceptsEvents("create_webhook_exa", call.events)
       /\ AcceptsEvents("update_webhook_exa", call.events)

(***************************************************************************)
(* search_webset_items_exa with patterns that may not compile.  A pattern  *)
(* argument is kept by its source text; new RegExp(source, 'i') throws a   *)
(* SyntaxError for the sources of InvalidSources.                          *)
(***************************************************************************)
SourceNotGiven == [given |-> FALSE, source |-> ""]

InvalidSources == {"(", "[a"}

PatternSources ==
  {SourceNotGiven} \cup [given : {TRUE}, source : {"", "^a"} \cup InvalidSources]

\* if (filters?.urlPattern): supplied and not the empty string
SourceTruthy(pat) == pat.given /\ pat.source # ""

\* new RegExp(pat.source, 'i') throws
CompileThrows(pat) == pat.source \in InvalidSources

\* The SyntaxError of new RegExp.
SyntaxErrorThrown ==
  [kind |-> "error", status |-> Absent, statusText |-> Absent,
   body |-> Absent, code |-> Absent,
   message |-> "Invalid regular expression"]

FilterBlockThrows_UrlPatternOnly(filters) ==
  SourceTruthy(filters.urlPattern) /\ CompileThrows(filters.urlPattern)

\* the two if blocks that build the RegExp objects
FilterBlockThrows(filters) ==
  \/ SourceTruthy(filters.urlPattern) /\ CompileThrows(filters.urlPattern)
  \/ SourceTruthy(filters.titlePattern) /\ CompileThrows(filters.titlePattern)

\* the handler from the point where the awaited call settles
SearchHandlerResult(filters, outcome) ==
  LET op == "search_webset_items_exa" IN
  IF outcome.kind = "response"
  THEN IF SuccessPathThrows(op, outcome.body)
       THEN CatchBlock(op, TypeErrorThrown)
       ELSE IF FilterBlockThrows(filters)
            THEN CatchBlock(op, SyntaxErrorThrown)
            ELSE SuccessEnvelope(op)
  ELSE CatchBlock(op, outcome)

PatternInit ==
  /\ inv = NoInvocations
  /\ \E u \in PatternSources, t \in PatternSources :
       call = [stage |-> "pattern-invoked",
               filters |-> [urlPattern |-> u, titlePattern |-> t],
               sent |-> 0, outcome |-> NoOutcome, envelope |-> NoEnvelope]

\* The argument shape (z.string().optional()) accepts every pattern text.
PatternArgsAccepted ==
  /\ call.stage = "pattern-invoked"
  /\ call' = [call EXCEPT !.stage = "pattern-handler"]
  /\ UNCHANGED inv

\* The handler builds the query and sends the list request.
SearchRequestSent ==
  /\ call.stage = "pattern-handler"
  /\ call' = [call EXCEPT !.stage = "pattern-waiting", !.sent = @ + 1]
  /\ UNCHANGED inv

\* The awaited call settles and the handler returns its envelope.
SearchSettles ==
  /\ call.stage = "pattern-waiting"
  /\ \E outcome \in RemoteOutcomes \cup {TimeoutError} :
       call' = [call EXCEPT !.stage = "pattern-returned",
                            !.outcome = outcome,
                            !.envelope = SearchHandlerResult(call.filters, outcome)]
  /\ UNCHANGED inv

PatternNext == PatternArgsAccepted \/ SearchRequestSent \/ SearchSettles

PatternSpec == PatternInit /\ [][PatternNext]_vars

\* a pattern that is no valid regular expression was supplied
InvalidPatternSupplied ==
  \/ call.filters.urlPattern.given
       /\ call.filters.urlPattern.source \in InvalidSources
  \/ call.filters.titlePattern.given
       /\ call.filters.titlePattern.source \in InvalidSources

\* C29: with a urlPattern or titlePattern that is no valid regular
\* expression the invocation passes argument validation, no envelope is
\* returned before the list request is sent, and the envelope returned is a
\* failure with isError set, exactly one request having been made.
C29_InvalidPatternFailsAfterRequest ==
  InvalidPatternSupplied =>
    /\ call.stage \in {"pattern-invoked", "pattern-handler", "pattern-waiting"} =>
         call.envelope = NoEnvelope
    /\ call.stage = "pattern-invoked" => ENABLED PatternArgsAccepted
    /\ call.stage = "pattern-returned" =>
         /\ call.envelope.failed
         /\ call.envelope.flagStyle = "isError"
         /\ call.sent = 1

\* C29 witness: the remote answered the list request with a page, and the
\* invalid titlePattern made the handler return the SyntaxError's message.
C29_Witness ==
  /\ call.stage = "pattern-returned"
  /\ call.filters.urlPattern = [given |-> TRUE, source |-> "^a"]
  /\ call.filters.titlePattern = [given |-> TRUE, source |-> "("]
  /\ call.outcome = Response("object")
  /\ call.envelope.failed
  /\ call.envelope.error = "Invalid regular expression"
  /\ call.sent = 1

(***************************************************************************)
(* Registration.  Each register function registers its tools on the        *)
(* server it is handed, one server.tool / server.addTool call per tool.    *)
(* The registry counts, per name, the registrations made.                  *)
(***************************************************************************)
RegisterFunctions ==
  { "registerWebsetOperationTools", "registerWebsetItemTools",
    "registerWebsetBatchTools", "registerWebsetExportTools" }

RegisteredBy_BatchRepeatsItemTool(fn) ==
  CASE fn = "registerWebsetOperationTools" -> OperationTools
    [] fn = "registerWebsetItemTools"      -> ItemTools
    [] fn = "registerWebsetBatchTools"     ->
         BatchTools \cup {"delete_webset_item_exa"}
    [] fn = "registerWebsetExportTools"    -> ExportTools

\* the names a register function registers: all of them, whenever called
\* (its parameters are the server and the config with the API key)
RegisteredBy(fn) ==
  CASE fn = "registerWebsetOperationTools" -> OperationTools
    [] fn = "registerWebsetItemTools"      -> ItemTools
    [] fn = "registerWebsetBatchTools"     -> BatchTools
    [] fn = "registerWebsetExportTools"    -> ExportTools

NoAllowList == [given |-> FALSE, names |-> {}]

UnknownTool == "no_such_tool_exa"

\* the allow-lists of the registry specification
AllowLists ==
  {NoAllowList} \cup
  [given : {TRUE},
   names : SUBSET { "create_import_exa", "list_webset_items_exa",
                    "batch_update_items_exa", "create_export_exa",
                    UnknownTool }]

\* the allow-list selects everything
SelectsAll(allow) == ~allow.given \/ allow.names = {}

\* Startup calls a register function when the allow-list selects everything
\* or names one of the function's tools; a name no function registers
\* selects nothing.
StartupCalls(fn, allow) ==
  SelectsAll(allow) \/ allow.names \cap RegisteredBy(fn) # {}

EmptyRegistry == [name \in Operations |-> 0]

RegistryInit ==
  /\ inv = NoInvocations
  /\ \E allow \in AllowLists :
       call = [stage |-> "starting", allow |-> allow, called |-> {},
               registry |-> EmptyRegistry, dispatched |-> Absent,
               found |-> FALSE]

\* Startup calls one register function, which registers all its tools.
CallRegisterFunction(fn) ==
  /\ call.stage = "starting"
  /\ fn \notin call.called
  /\ StartupCalls(fn, call.allow)
  /\ call' = [call EXCEPT
       !.called = @ \cup {fn},
       !.registry = [name \in Operations |->
                       @[name] + (IF name \in RegisteredBy(fn) THEN 1 ELSE 0)]]
  /\ UNCHANGED inv

\* Startup is over; the server takes invocations.
StartServing ==
  /\ call.stage = "starting"
  /\ \A fn \in RegisterFunctions :
       StartupCalls(fn, call.allow) => fn \in call.called
  /\ call' = [call EXCEPT !.stage = "serving"]
  /\ UNCHANGED inv

\* An invocation is dispatched by name; handlers register nothing.
Dispatch(name) ==
  /\ call.stage = "serving"
  /\ call' = [call EXCEPT
       !.dispatched = name,
       !.found = name \in Operations /\ call.registry[name] > 0]
  /\ UNCHANGED inv

RegistryNext ==
  \/ \E fn \in RegisterFunctions : CallRegisterFunction(fn)
  \/ StartServing
  \/ \E name \in { "create_import_exa", "get_import_exa",
                   "search_webset_items_exa", "batch_update_items_exa",
                   "delete_export_exa", UnknownTool } : Dispatch(name)

RegistrySpec == RegistryInit /\ [][RegistryNext]_vars

\* the operations that are registered
RegisteredNames == { name \in Operations : call.registry[name] > 0 }

\* C23 (as claimed): once the server serves, the registered operations are
\* exactly the known operations the allow-list names, or all known
\* operations when the list is empty or absent; an unknown name in the list
\* changes nothing; an operation is reachable exactly when it is registered.
C23_ExactlyListedRegistered ==
  call.stage = "serving" =>
    /\ RegisteredNames =
         IF SelectsAll(call.allow) THEN Operations
         ELSE call.allow.names \cap Operations
    /\ call.dispatched # Absent =>
         (call.found <=> call.dispatched \in RegisteredNames)

\* C27: no operation name is registered more than once, whatever register
\* functions have run, so a name selects at most one handler.
C27_NamesRegisteredOnce ==
  call.stage \in {"starting", "serving"} =>
    /\ \A name \in Operations : call.registry[name] <= 1
    /\ \A f, g \in call.called :
         f # g => RegisteredBy(f) \cap RegisteredBy(g) = {}

\* C27 witness: all four register functions have run and each of the 32
\* operations is registered once.
C27_Witness ==
  /\ call.stage = "serving"
  /\ call.called = RegisterFunctions
  /\ Cardinality(RegisteredNames) = 32
  /\ \A name \in Operations : call.registry[name] = 1

(***************************************************************************)
(* Two invocations in flight at once.  A handler keeps all it builds (the  *)
(* axios instance, headers, parameters, body) in its own locals; the model *)
(* keeps them in the invocation's own slot.                                *)
(***************************************************************************)
ConcurrentSlots == {"first", "second"}

\* one tool of each handler style
ConcurrentTools ==
  { "create_import_exa", "search_webset_items_exa", "batch_update_items_exa" }

IdleSlot ==
  [pc |-> "idle", op |-> Absent, req |-> NoRequest, outcome |-> NoOutcome,
   env |-> NoEnvelope]

OtherSlot(i) == CHOOSE j \in ConcurrentSlots : j # i

RequestOfSlot_SharedAcrossHandlers(slots, i) ==
  IF slots[OtherSlot(i)].pc \in {"handler", "waiting"}
  THEN BuildRequest(slots[OtherSlot(i)].op)
  ELSE BuildRequest(slots[i].op)

\* the request a handler builds: from its own arguments only
RequestOfSlot(slots, i) == BuildRequest(slots[i].op)

\* what the awaited call of a handler may settle with
OutcomesFor(op) ==
  RemoteOutcomes \cup
  (IF TimeoutOf(op) # NoTimeout THEN {TimeoutError} ELSE {})

ConcurrentInit ==
  /\ inv = NoInvocations
  /\ call = [stage |-> "concurrent",
             slots |-> [i \in ConcurrentSlots |-> IdleSlot]]

\* The host invokes a tool while the other slot is in any state.
ConcurrentInvoke(i, op) ==
  /\ call.slots[i].pc = "idle"
  /\ call' = [call EXCEPT !.slots[i] =
                [IdleSlot EXCEPT !.pc = "handler", !.op = op]]
  /\ UNCHANGED inv

\* The handler builds its request and suspends at the await.
ConcurrentSend(i) ==
  /\ call.slots[i].pc = "handler"
  /\ call' = [call EXCEPT !.slots[i].pc = "waiting",
                          !.slots[i].req = RequestOfSlot(call.slots, i)]
  /\ UNCHANGED inv

\* The awaited call settles; the handler returns its envelope.
ConcurrentSettle(i, outcome) ==
  /\ call.slots[i].pc = "waiting"
  /\ outcome \in OutcomesFor(call.slots[i].op)
  /\ call' = [call EXCEPT
       !.slots[i].pc = "done",
       !.slots[i].outcome = outcome,
       !.slots[i].env = HandlerResult(call.slots[i].op, outcome).env]
  /\ UNCHANGED inv

\* The host takes the result.
ConcurrentReturn(i) ==
  /\ call.slots[i].pc = "done"
  /\ call' = [call EXCEPT !.slots[i] = IdleSlot]
  /\ UNCHANGED inv

ConcurrentNext ==
  \E i \in ConcurrentSlots :
    \/ \E op \in ConcurrentTools : ConcurrentInvoke(i, op)
    \/ ConcurrentSend(i)
    \/ \E outcome \in RemoteOutcomes \cup {TimeoutError} :
         ConcurrentSettle(i, outcome)
    \/ ConcurrentReturn(i)

ConcurrentSpec == ConcurrentInit /\ [][ConcurrentNext]_vars

=============================================================================
